---- MODULE Spec2Model ----
(***************************************************************************)
(* Item normalization and merge engine of the pantry backend               *)
(* (app/core/models.py, app/core/merge.py).                                *)
(*                                                                         *)
(* Strings are sequences of character codes, so that lower(), strip(),     *)
(* the canonical unit table and Python's string ordering are computed.     *)
(* Python's None (Optional[str]) is the sequence <<-1>>, which is no       *)
(* string.  Items are objects: the heap maps an object's reference to its  *)
(* fields, and the lists hold references, so that a write through one      *)
(* reference is seen through every other reference to the same object.     *)
(* Quantities are fixed-point numbers counted in steps of 10^-6 / Micro.   *)
(***************************************************************************)
EXTENDS Integers, Sequences, FiniteSets, TLC

\* ---------------------------------------------------------------- bounds
\* Resolution of a quantity: steps per 0.000001.  Fine enough for the sum
\* of two quantities that are no multiples of 0.000001 to fall on either
\* side of the half.
Micro == 10
\* Items the caller holds in current, incoming and the later batch together.
MaxItems == 3
\* Calls of the merge engine in one run.
MaxCalls == 2

\* --------------------------------------------------------------- strings
None == <<-1>>

IsSpace(c) == c \in {9, 10, 11, 12, 13, 32}
LowerChar(c) == IF c >= 65 /\ c <= 90 THEN c + 32 ELSE c
lower(s) == [i \in 1..Len(s) |-> LowerChar(s[i])]

RECURSIVE lstrip(_)
lstrip(s) == IF s = <<>> THEN s
             ELSE IF IsSpace(Head(s)) THEN lstrip(Tail(s)) ELSE s
RECURSIVE rstrip(_)
rstrip(s) == IF s = <<>> THEN s
             ELSE IF IsSpace(s[Len(s)]) THEN rstrip(SubSeq(s, 1, Len(s) - 1)) ELSE s
strip(s) == rstrip(lstrip(s))

\* Python's < on str: lexicographic by code point.
RECURSIVE StrLess(_, _)
StrLess(a, b) ==
    IF b = <<>> THEN FALSE
    ELSE IF a = <<>> THEN TRUE
    ELSE IF Head(a) # Head(b) THEN Head(a) < Head(b)
    ELSE StrLess(Tail(a), Tail(b))

\* Python's < on tuples of str.
RECURSIVE TupleLess(_, _)
TupleLess(x, y) ==
    IF y = <<>> THEN FALSE
    ELSE IF x = <<>> THEN TRUE
    ELSE IF Head(x) # Head(y) THEN StrLess(Head(x), Head(y))
    ELSE TupleLess(Tail(x), Tail(y))

\* String literals used below.
s_g == <<103>>
s_grams == <<103, 114, 97, 109, 115>>
s_gram == <<103, 114, 97, 109>>
s_kg == <<107, 103>>
s_kilogram == <<107, 105, 108, 111, 103, 114, 97, 109>>
s_kilograms == <<107, 105, 108, 111, 103, 114, 97, 109, 115>>
s_ml == <<109, 108>>
s_millilitre == <<109, 105, 108, 108, 105, 108, 105, 116, 114, 101>>
s_milliliter == <<109, 105, 108, 108, 105, 108, 105, 116, 101, 114>>
s_milliliters == <<109, 105, 108, 108, 105, 108, 105, 116, 101, 114, 115>>
s_l == <<108>>
s_litre == <<108, 105, 116, 114, 101>>
s_liter == <<108, 105, 116, 101, 114>>
s_liters == <<108, 105, 116, 101, 114, 115>>
s_cup == <<99, 117, 112>>
s_cups == <<99, 117, 112, 115>>
s_pcs == <<112, 99, 115>>
s_piece == <<112, 105, 101, 99, 101>>
s_pieces == <<112, 105, 101, 99, 101, 115>>
s_unit == <<117, 110, 105, 116>>
s_units == <<117, 110, 105, 116, 115>>
s_Grams == <<71, 114, 97, 109, 115>>
s_Tomato == <<84, 111, 109, 97, 116, 111>>
s_tomato == <<116, 111, 109, 97, 116, 111>>
s_tomato_padded == <<32, 116, 111, 109, 97, 116, 111, 32>>
s_apple == <<97, 112, 112, 108, 101>>
s_blank == <<32>>
s_Bunch_padded == <<32, 66, 117, 110, 99, 104>>
s_Veg == <<86, 101, 103>>
s_ripe == <<114, 105, 112, 101>>

\* ------------------------------------------------------------------ Item
\* Optional[float] confidence: None.
NoConfidence == -1

\* Mutant of _strip_name: the name is taken as it comes.
_strip_name_asis(v) == v

\* The validators of Item, applied to a payload of keyword arguments.
_strip_name(v) == strip(v)
_normalize_unit_shape(v) ==
    IF v = None THEN None
    ELSE IF strip(v) = <<>> THEN None ELSE strip(v)

ItemValid(p) ==
    /\ Len(p.name) >= 1
    /\ _strip_name(p.name) # <<>>
    /\ p.quantity >= 0
    /\ p.confidence = NoConfidence \/ (p.confidence >= 0 /\ p.confidence <= 100)

\* Item(**p) for a payload that validates.
Item(p) ==
    [name |-> _strip_name(p.name),
     quantity |-> p.quantity,
     unit |-> _normalize_unit_shape(p.unit),
     category |-> p.category,
     confidence |-> p.confidence,
     notes |-> p.notes,
     norm_name |-> p.norm_name,
     norm_unit |-> p.norm_unit]

\* it.dict(exclude={"norm_name", "norm_unit"}): the two fields fall back to
\* their default, None, when an Item is built from the dict.
dict_exclude(it) == [it EXCEPT !.norm_name = None, !.norm_unit = None]

CANON ==
    { <<s_grams, s_g>>, <<s_gram, s_g>>, <<s_g, s_g>>,
      <<s_kilogram, s_kg>>, <<s_kilograms, s_kg>>, <<s_kg, s_kg>>,
      <<s_ml, s_ml>>, <<s_millilitre, s_ml>>, <<s_milliliter, s_ml>>,
      <<s_milliliters, s_ml>>,
      <<s_l, s_l>>, <<s_litre, s_l>>, <<s_liter, s_l>>, <<s_liters, s_l>>,
      <<s_cup, s_cup>>, <<s_cups, s_cup>>,
      <<s_pcs, s_piece>>, <<s_piece, s_piece>>, <<s_pieces, s_piece>>,
      <<s_unit, s_piece>>, <<s_units, s_piece>> }

\* CANON.get(u, u)
CanonGet(u) ==
    IF \E e \in CANON : e[1] = u
    THEN (CHOOSE e \in CANON : e[1] = u)[2]
    ELSE u

\* The value normalized_name() returns.
normalized_name(it) ==
    IF it.norm_name # None THEN it.norm_name
    ELSE strip(lower(it.name))

\* The value normalized_unit() returns.
normalized_unit(it) ==
    IF it.norm_unit # None THEN it.norm_unit
    ELSE IF it.unit = None THEN None
    ELSE CanonGet(strip(lower(it.unit)))

\* The value key() returns.
key(it) == <<normalized_name(it), normalized_unit(it)>>

\* The object after normalized_name(), normalized_unit() or key() ran on
\* it: the methods store what they return in norm_name and norm_unit.
cached(it) ==
    [it EXCEPT !.norm_name = normalized_name(it),
               !.norm_unit = normalized_unit(it)]

\* ---------------------------------------------------------------- merge
ADD == "add"
Strategies == {"add", "replace"}

\* round(q, 6): the nearest multiple of 0.000001, an exact half to even.
Round6(q) ==
    LET r == q % Micro
        lo == q - r
    IN IF 2 * r < Micro THEN lo
       ELSE IF 2 * r > Micro THEN lo + Micro
       ELSE IF (lo \div Micro) % 2 = 0 THEN lo ELSE lo + Micro

\* The dict idx, in insertion order: a sequence of [key, ref] entries.
HasKey(idx, k) == \E j \in 1..Len(idx) : idx[j].key = k
Slot(idx, k) == CHOOSE j \in 1..Len(idx) : idx[j].key = k
Get(idx, k) == idx[Slot(idx, k)].ref
\* idx[k] = ref: an existing key keeps its position.
Put(idx, k, ref) ==
    IF HasKey(idx, k) THEN [idx EXCEPT ![Slot(idx, k)].ref = ref]
    ELSE Append(idx, [key |-> k, ref |-> ref])
Values(idx) == [j \in 1..Len(idx) |-> idx[j].ref]

\* Mutant of CopyItem: the copy takes the name, quantity and unit only.
CopyItem_bare(hp, r) ==
    LET h == Append(hp, Item([dict_exclude(hp[r])
                                 EXCEPT !.category = None,
                                        !.confidence = NoConfidence,
                                        !.notes = None]))
    IN [heap |-> h, ref |-> Len(h)]

\* Mutant of CopyItem: the index keeps the caller's object instead of a copy.
CopyItem_alias(hp, r) == [heap |-> hp, ref |-> r]

\* Item(**it.dict(exclude={"norm_name", "norm_unit"})): a new object on the
\* heap.  Gives the heap and the reference of the new object.
CopyItem(hp, r) ==
    LET h == Append(hp, Item(dict_exclude(hp[r])))
    IN [heap |-> h, ref |-> Len(h)]

\* One round of the loop of _index, for the object r of items.
IndexStep(st, r) ==
    LET k == key(st.heap[r])
        h1 == [st.heap EXCEPT ![r] = cached(st.heap[r])]
        cp == CopyItem(h1, r)
    IN [heap |-> cp.heap, idx |-> Put(st.idx, k, cp.ref)]

RECURSIVE IndexLoop(_, _, _)
IndexLoop(st, items, i) ==
    IF i > Len(items) THEN st
    ELSE IndexLoop(IndexStep(st, items[i]), items, i + 1)

_index(heap, items) == IndexLoop([heap |-> heap, idx |-> <<>>], items, 1)

\* Mutant of IsNoOp: no incoming item is skipped.
IsNoOp_never(inc) == FALSE

\* inc.quantity == 0: the incoming item is skipped.
IsNoOp(inc) == inc.quantity = 0

\* Mutant of Combined: the sum is stored as it is.
Combined_exact(q, incq) == q + incq

\* round(combined.quantity + inc.quantity, 6)
Combined(q, incq) == Round6(q + incq)

\* Mutant of Updated: the incoming item takes the place of the entry.
Updated_replaced(combined, inc) ==
    [Item(dict_exclude(inc))
        EXCEPT !.quantity = Combined(combined.quantity, inc.quantity)]

\* combined = idx[key]; combined.quantity = round(...): the entry after an
\* incoming item of its key was added.
Updated(combined, inc) ==
    [combined EXCEPT !.quantity = Combined(combined.quantity, inc.quantity)]

\* One round of the loop over incoming, for the object r.
MergeStep(st, r) ==
    LET inc == st.heap[r]
        k == key(inc)
        h1 == [st.heap EXCEPT ![r] = cached(inc)]
    IN IF IsNoOp(inc) THEN [heap |-> h1, idx |-> st.idx]
       ELSE IF HasKey(st.idx, k)
       THEN LET c == Get(st.idx, k)
            IN [heap |-> [h1 EXCEPT ![c] = Updated(h1[c], inc)],
                idx |-> st.idx]
       ELSE LET cp == CopyItem(h1, r)
            IN [heap |-> cp.heap, idx |-> Put(st.idx, k, cp.ref)]

RECURSIVE MergeLoop(_, _, _)
MergeLoop(st, incoming, i) ==
    IF i > Len(incoming) THEN st
    ELSE MergeLoop(MergeStep(st, incoming[i]), incoming, i + 1)

\* Mutant of OrEmpty: the sort key holds the normalized unit as it is.
OrEmpty_asis(x) == x

\* `x or ""` for an Optional[str].
OrEmpty(x) == IF x = None \/ x = <<>> THEN <<>> ELSE x

\* Mutant of SortKey: the list is sorted by display name.
SortKey_display(it) == <<it.name, OrEmpty(normalized_unit(it)), it.name>>

\* The sort key of merged.sort.
SortKey(it) == <<normalized_name(it), OrEmpty(normalized_unit(it)), it.name>>

\* list.sort is stable: an element goes behind the elements that are not
\* greater than it.
RECURSIVE SortInsert(_, _, _)
SortInsert(heap, sorted, r) ==
    IF sorted = <<>> THEN <<r>>
    ELSE IF TupleLess(SortKey(heap[r]), SortKey(heap[Head(sorted)]))
         THEN <<r>> \o sorted
         ELSE <<Head(sorted)>> \o SortInsert(heap, Tail(sorted), r)

RECURSIVE SortRefs(_, _, _)
SortRefs(heap, refs, i) ==
    IF i = 0 THEN <<>>
    ELSE SortInsert(heap, SortRefs(heap, refs, i - 1), refs[i])

\* The key function of the sort runs on every element, from refs[i] on.
RECURSIVE KeyAll(_, _, _)
KeyAll(heap, refs, i) ==
    IF i > Len(refs) THEN heap
    ELSE KeyAll([heap EXCEPT ![refs[i]] = cached(heap[refs[i]])], refs, i + 1)

\* merged.sort(key=...): the sorted references, and the heap after the key
\* function ran on every element.
SortMerged(heap, refs) ==
    LET keyed == KeyAll(heap, refs, 1)
    IN [heap |-> keyed, merged |-> SortRefs(keyed, refs, Len(refs))]

\* Python's < between None and a str raises TypeError.  Sorting compares
\* two keys of equal normalized name by their second component, which
\* raises when one of the two is None and the other a string.
SortRaises(heap, refs) ==
    LET keys == [i \in 1..Len(refs) |-> SortKey(heap[refs[i]])]
    IN \E i, j \in 1..Len(refs) :
          /\ keys[i][2] = None
          /\ keys[j][2] # None
          /\ keys[i][1] = keys[j][1]

\* Mutant of Supported: an unknown strategy falls back to 'add'.
Supported_any(s) == TRUE

\* strategy != MergeStrategy.ADD raises ValueError.
Supported(s) == s = ADD

\* merged = list(idx.values()); merged.sort(...); return merged: the sorted
\* list, or the TypeError of the sort.
SortAndReturn(st) ==
    LET out == SortMerged(st.heap, Values(st.idx))
    IN IF SortRaises(out.heap, Values(st.idx))
       THEN [raised |-> TRUE, heap |-> out.heap, merged |-> <<>>]
       ELSE [raised |-> FALSE, heap |-> out.heap, merged |-> out.merged]

\* merge_items(current, incoming, strategy) on the heap: whether it raised,
\* the heap it leaves and the list of references it returns.
merge_items(heap, current, incoming, strategy) ==
    IF ~Supported(strategy)
    THEN [raised |-> TRUE, heap |-> heap, merged |-> <<>>]
    ELSE CHOOSE res \in { SortAndReturn(st) :
                             st \in { MergeLoop(_index(heap, current),
                                                incoming, 1) } } : TRUE

\* Pantry(items=...)
Pantry(items) == [items |-> items]

\* Mutant of apply_merge: the merged list is stored in the argument, which
\* is returned.
apply_merge_inplace(heap, pantries, pantry, incoming_items, strategy) ==
    LET m == merge_items(heap, pantries[pantry].items, incoming_items, strategy)
    IN IF m.raised
       THEN [raised |-> TRUE, heap |-> m.heap, pantries |-> pantries, pantry |-> 0]
       ELSE [raised |-> FALSE, heap |-> m.heap,
             pantries |-> [pantries EXCEPT ![pantry] = Pantry(m.merged)],
             pantry |-> pantry]

\* apply_merge(pantry, incoming_items, strategy), pantry being a reference
\* into the Pantry objects: whether it raised, the Items and the Pantry
\* objects it leaves, and the reference of the Pantry it returns.
apply_merge(heap, pantries, pantry, incoming_items, strategy) ==
    LET m == merge_items(heap, pantries[pantry].items, incoming_items, strategy)
    IN IF m.raised
       THEN [raised |-> TRUE, heap |-> m.heap, pantries |-> pantries, pantry |-> 0]
       ELSE [raised |-> FALSE, heap |-> m.heap,
             pantries |-> Append(pantries, Pantry(m.merged)),
             pantry |-> Len(pantries) + 1]

\* ------------------------------------------------------- the caller's data
\* 1.0 as a quantity.
One == 1000000 * Micro

Payload(name, quantity, unit) ==
    [name |-> name, quantity |-> quantity, unit |-> unit,
     category |-> None, confidence |-> NoConfidence, notes |-> None,
     norm_name |-> None, norm_unit |-> None]

\* Tomato 2 g
P_Tomato == Payload(s_Tomato, 2 * One, s_g)
\* " tomato " 3.0000001 Grams (one step above 3), with metadata
P_tomato_grams ==
    [Payload(s_tomato_padded, 3 * One + 1, s_Grams)
        EXCEPT !.category = s_Veg, !.confidence = 90, !.notes = s_ripe]
\* tomato 0 g
P_tomato_zero == Payload(s_tomato, 0, s_g)
\* tomato 0.0000003 grams (three steps above zero)
P_tomato_tiny == Payload(s_tomato, 3, s_grams)
\* Tomato 1 with a blank unit
P_Tomato_blank == Payload(s_Tomato, One, s_blank)
\* apple 1 g
P_apple == Payload(s_apple, One, s_g)
\* Tomato 1 g whose payload carries norm_name "apple"
P_Tomato_as_apple == [Payload(s_Tomato, One, s_g) EXCEPT !.norm_name = s_apple]

Payloads ==
    { P_Tomato, P_tomato_grams, P_tomato_zero, P_tomato_tiny,
      P_Tomato_blank, P_apple, P_Tomato_as_apple }

\* The Items a caller can construct from the payloads.
Pool == { Item(p) : p \in { q \in Payloads : ItemValid(q) } }

\* ----------------------------------------------------------- state machine
\* No pantry file: os.path.exists(self.path) is false.
NoFile == [exists |-> FALSE, items |-> <<>>]

VARIABLES
    heap,       \* the Item objects, by reference
    current,    \* the caller's current list (references)
    incoming,   \* the caller's incoming list
    later,      \* the batch the caller merges after this one
    merged,     \* the list the last call returned
    pc,         \* where the caller is: "idle", "returned", "raised", ...
    fn,         \* the function of the last call
    strategy,   \* the strategy of the last call
    calls,      \* calls made so far
    pantries,   \* the Pantry objects, by reference
    pantry,     \* the Pantry the last call was given (0: none)
    returned,   \* the Pantry the last call returned (0: none)
    arg,        \* the keyword arguments of the last Item(...) call
    value,      \* the value the last method call on an Item returned
    file,       \* the pantry file: whether it exists, and its items
    events,     \* the lines of the event log
    status,     \* the status of the last HTTP response (0: none yet)
    body,       \* the items of the last HTTP response, as JSON
    frames      \* the local variables of the calls that run concurrently

vars == <<heap, current, incoming, later, merged, pc, fn, strategy, calls,
          pantries, pantry, returned, arg, value, file, events, status, body,
          frames>>

api_vars == <<file, events, status, body>>

Range(lo, n) == [i \in 1..n |-> lo + i]

Init ==
    \E n \in 0..MaxItems, m \in 0..MaxItems, l \in 0..MaxItems :
        /\ n + m + l <= MaxItems
        /\ heap \in [1..(n + m + l) -> Pool]
        /\ current = Range(0, n)
        /\ incoming = Range(n, m)
        /\ later = Range(n + m, l)
        /\ merged = <<>>
        /\ pc = "idle"
        /\ fn = "none"
        /\ strategy = "none"
        /\ calls = 0
        /\ pantries = <<>>
        /\ pantry = 0
        /\ returned = 0
        /\ arg = None
        /\ value = None
        /\ file = NoFile
        /\ events = <<>>
        /\ status = 0
        /\ body = <<>>
        /\ frames = <<>>

\* The caller calls merge_items(current, incoming, s).
CallMergeItems(s) ==
    /\ pc = "idle"
    /\ calls < MaxCalls
    /\ LET m == merge_items(heap, current, incoming, s)
       IN /\ heap' = m.heap
          /\ merged' = m.merged
          /\ pc' = IF m.raised THEN "raised" ELSE "returned"
    /\ fn' = "merge_items"
    /\ strategy' = s
    /\ calls' = calls + 1
    /\ UNCHANGED <<api_vars, frames>>
    /\ UNCHANGED <<current, incoming, later, pantries, pantry, returned,
                   arg, value>>

\* The caller calls apply_merge(Pantry(items=current), incoming, s).
CallApplyMerge(s) ==
    /\ pc = "idle"
    /\ calls < MaxCalls
    /\ LET ps == Append(pantries, Pantry(current))
           m == apply_merge(heap, ps, Len(ps), incoming, s)
       IN /\ heap' = m.heap
          /\ pantries' = m.pantries
          /\ pantry' = Len(ps)
          /\ returned' = m.pantry
          /\ merged' = IF m.raised THEN <<>> ELSE m.pantries[m.pantry].items
          /\ pc' = IF m.raised THEN "raised" ELSE "returned"
    /\ fn' = "apply_merge"
    /\ strategy' = s
    /\ calls' = calls + 1
    /\ UNCHANGED <<api_vars, frames>>
    /\ UNCHANGED <<current, incoming, later, arg, value>>

\* The caller takes the returned list as its pantry and turns to the later
\* batch; the Pantry objects of the call are dropped.
Continue ==
    /\ pc = "returned"
    /\ calls < MaxCalls
    /\ current' = merged
    /\ incoming' = later
    /\ later' = <<>>
    /\ merged' = <<>>
    /\ pc' = "idle"
    /\ fn' = "none"
    /\ strategy' = "none"
    /\ pantries' = <<>>
    /\ pantry' = 0
    /\ returned' = 0
    /\ UNCHANGED <<api_vars, frames>>
    /\ UNCHANGED <<heap, calls, arg, value>>

Next ==
    \/ \E s \in Strategies : CallMergeItems(s)
    \/ \E s \in Strategies : CallApplyMerge(s)
    \/ Continue

Spec == Init /\ [][Next]_vars

\* ------------------------------------------- the life of a single Item
\* Keyword arguments a caller, a request body or a stored file can hand to
\* Item(...).
RawNames == { <<>>, s_blank, s_Tomato, s_tomato_padded }
RawQuantities == { 0 - One, 0 - 1, 0, One }
RawUnits ==
    { None, <<>>, s_blank, s_Grams, s_Bunch_padded } \cup { e[1] : e \in CANON }
RawPayloads ==
    { [Payload(n, q, u) EXCEPT !.norm_name = nn, !.norm_unit = nu] :
         n \in RawNames, q \in RawQuantities, u \in RawUnits,
         nn \in { None, s_apple }, nu \in { None, <<>>, s_kg } }

ItemInit ==
    /\ heap = <<>>
    /\ current = <<>>
    /\ incoming = <<>>
    /\ later = <<>>
    /\ merged = <<>>
    /\ pc = "idle"
    /\ fn = "none"
    /\ strategy = "none"
    /\ calls = 0
    /\ pantries = <<>>
    /\ pantry = 0
    /\ returned = 0
    /\ arg = None
    /\ value = None
    /\ file = NoFile
    /\ events = <<>>
    /\ status = 0
    /\ body = <<>>
    /\ frames = <<>>

merge_vars ==
    <<current, incoming, later, merged, strategy, calls, pantries, pantry,
      returned>>

\* Item(**p): the validators run; a ValidationError leaves no object.
Construct(p) ==
    /\ pc = "idle"
    /\ arg' = p
    /\ fn' = "Item"
    /\ IF ItemValid(p)
       THEN heap' = <<Item(p)>> /\ pc' = "constructed"
       ELSE heap' = <<>> /\ pc' = "invalid"
    /\ UNCHANGED <<api_vars, frames>>
    /\ UNCHANGED <<value, merge_vars>>

\* item.normalized_name()
CallNormalizedName ==
    /\ pc \in {"constructed", "called", "assigned"}
    /\ value' = normalized_name(heap[1])
    /\ heap' = [heap EXCEPT ![1].norm_name = normalized_name(heap[1])]
    /\ fn' = "normalized_name"
    /\ pc' = IF pc = "assigned" THEN "assigned" ELSE "called"
    /\ UNCHANGED <<api_vars, frames>>
    /\ UNCHANGED <<arg, merge_vars>>

\* item.normalized_unit()
CallNormalizedUnit ==
    /\ pc \in {"constructed", "called", "assigned"}
    /\ value' = normalized_unit(heap[1])
    /\ heap' = [heap EXCEPT ![1].norm_unit = normalized_unit(heap[1])]
    /\ fn' = "normalized_unit"
    /\ pc' = IF pc = "assigned" THEN "assigned" ELSE "called"
    /\ UNCHANGED <<api_vars, frames>>
    /\ UNCHANGED <<arg, merge_vars>>

\* item.key()
CallKey ==
    /\ pc \in {"constructed", "called", "assigned"}
    /\ value' = key(heap[1])
    /\ heap' = [heap EXCEPT ![1] = cached(heap[1])]
    /\ fn' = "key"
    /\ pc' = IF pc = "assigned" THEN "assigned" ELSE "called"
    /\ UNCHANGED <<api_vars, frames>>
    /\ UNCHANGED <<arg, merge_vars>>

\* Values a caller assigns to the name or the unit of an Item it holds.
AssignedNames == { s_Tomato, s_apple }
AssignedUnits == { None, s_Grams, s_kg }

\* item.name = v: Item does not set validate_assignment, so no validator
\* runs and norm_name stays as it is.
AssignName(v) ==
    /\ pc \in {"constructed", "called", "assigned"}
    /\ heap[1].name # v
    /\ heap' = [heap EXCEPT ![1].name = v]
    /\ fn' = "setattr"
    /\ pc' = "assigned"
    /\ UNCHANGED <<api_vars, frames>>
    /\ UNCHANGED <<arg, value, merge_vars>>

\* item.unit = v
AssignUnit(v) ==
    /\ pc \in {"constructed", "called", "assigned"}
    /\ heap[1].unit # v
    /\ heap' = [heap EXCEPT ![1].unit = v]
    /\ fn' = "setattr"
    /\ pc' = "assigned"
    /\ UNCHANGED <<api_vars, frames>>
    /\ UNCHANGED <<arg, value, merge_vars>>

\* The caller lets go of the Item, or of the error.
Discard ==
    /\ pc \in {"constructed", "called", "assigned", "invalid"}
    /\ heap' = <<>>
    /\ pc' = "idle"
    /\ fn' = "none"
    /\ arg' = None
    /\ value' = None
    /\ UNCHANGED <<api_vars, frames>>
    /\ UNCHANGED merge_vars

ItemNext ==
    \/ \E p \in RawPayloads : Construct(p)
    \/ CallNormalizedName
    \/ CallNormalizedUnit
    \/ CallKey
    \/ \E v \in AssignedNames : AssignName(v)
    \/ \E v \in AssignedUnits : AssignUnit(v)
    \/ Discard

ItemSpec == ItemInit /\ [][ItemNext]_vars

\* ------------------------------------------------ the pantry file, HTTP
\* The Items a list of references holds, in order.
ItemsAt(hp, refs) == [i \in 1..Len(refs) |-> hp[refs[i]]]

\* JSON texts.  A JSON object is a record of the texts of its members.
JsonNull == <<110, 117, 108, 108>>

\* The characters of a string between the quotes: '"' and '\' get a '\'.
RECURSIVE Escaped(_)
Escaped(v) ==
    IF v = <<>> THEN <<>>
    ELSE IF Head(v) \in {34, 92} THEN <<92, Head(v)>> \o Escaped(Tail(v))
    ELSE <<Head(v)>> \o Escaped(Tail(v))
RECURSIVE Unescaped(_)
Unescaped(t) ==
    IF t = <<>> THEN <<>>
    ELSE IF Head(t) = 92 THEN <<t[2]>> \o Unescaped(Tail(Tail(t)))
    ELSE <<Head(t)>> \o Unescaped(Tail(t))

\* json.dumps / json.loads of an Optional[str].
DumpStr(v) == IF v = None THEN JsonNull ELSE <<34>> \o Escaped(v) \o <<34>>
LoadStr(t) ==
    IF t = JsonNull THEN None ELSE Unescaped(SubSeq(t, 2, Len(t) - 1))

\* json.dumps / json.loads of a number: its digits (repr of a float gives
\* the digits that read back as the same float).
RECURSIVE Digits(_)
Digits(n) == IF n < 10 THEN <<48 + n>> ELSE Digits(n \div 10) \o <<48 + (n % 10)>>
RECURSIVE Number(_)
Number(t) ==
    IF Len(t) = 1 THEN t[1] - 48
    ELSE 10 * Number(SubSeq(t, 1, Len(t) - 1)) + (t[Len(t)] - 48)
DumpNum(q) == Digits(q)
LoadNum(t) == Number(t)
\* ... of an Optional[float].
DumpOpt(q) == IF q = NoConfidence THEN JsonNull ELSE Digits(q)
LoadOpt(t) == IF t = JsonNull THEN NoConfidence ELSE Number(t)

\* json.dumps of the dict of an Item without norm_name and norm_unit.
dumps(d) ==
    [name |-> DumpStr(d.name), quantity |-> DumpNum(d.quantity),
     unit |-> DumpStr(d.unit), category |-> DumpStr(d.category),
     confidence |-> DumpOpt(d.confidence), notes |-> DumpStr(d.notes)]
\* json.loads of such an object: the keyword arguments for Item(**it).
loads(o) ==
    [name |-> LoadStr(o.name), quantity |-> LoadNum(o.quantity),
     unit |-> LoadStr(o.unit), category |-> LoadStr(o.category),
     confidence |-> LoadOpt(o.confidence), notes |-> LoadStr(o.notes),
     norm_name |-> None, norm_unit |-> None]

\* Mutant of SavedDict: the stored dict holds name, quantity and unit only.
SavedDict_bare(it) ==
    [dict_exclude(it) EXCEPT !.category = None, !.confidence = NoConfidence,
                             !.notes = None]

\* i.dict(exclude={"norm_name", "norm_unit"}) in JSONPantryRepo.save.
SavedDict(it) == dict_exclude(it)

\* JSONPantryRepo.save: the document written for a list of Items.
save(items) ==
    [exists |-> TRUE,
     items |-> [i \in 1..Len(items) |-> dumps(SavedDict(items[i]))]]

\* JSONPantryRepo.load: whether it raises RepoError, and the Items it
\* builds (a missing file is an empty pantry).
load(f) ==
    IF ~f.exists THEN [raised |-> FALSE, items |-> <<>>]
    ELSE IF \E i \in 1..Len(f.items) : ~ItemValid(loads(f.items[i]))
    THEN [raised |-> TRUE, items |-> <<>>]
    ELSE [raised |-> FALSE,
          items |-> [i \in 1..Len(f.items) |-> Item(loads(f.items[i]))]]

\* response_model=Pantry: the items of a response; norm_name and norm_unit
\* are fields with exclude=True.
Response(items) == [i \in 1..Len(items) |-> dumps(dict_exclude(items[i]))]

\* InventoryEvent(type="update", payload={"mode": ..., <k>: [i.dict() ...]})
InventoryEvent(mode, items) ==
    [type |-> "update", mode |-> mode, items |-> Response(items)]

\* Request bodies: lists of Item payloads.
Bodies ==
    { <<>>, <<P_Tomato>>, <<P_tomato_grams>>, <<P_Tomato, P_tomato_grams>>,
      <<P_tomato_tiny, P_Tomato_blank>>, <<P_tomato_zero, P_apple>>,
      <<P_Tomato_as_apple, P_Tomato>> }

\* What the file system does to a request: nothing, or it fails the load,
\* the save or the append.
Failures == {"none", "load", "save", "append"}

ApiInit == ItemInit

\* The variables the handlers do not use.
engine_vars ==
    <<heap, current, incoming, later, merged, pc, strategy, pantries, pantry,
      returned, arg, value, frames>>

\* GET /api/pantry
get_pantry(fail) ==
    /\ fail \in {"none", "load"}
    /\ LET l == load(file)
       IN IF fail = "load" \/ l.raised
          THEN status' = 500 /\ body' = <<>>
          ELSE status' = 200 /\ body' = Response(l.items)
    /\ fn' = "get_pantry"
    /\ UNCHANGED <<file, events, calls, engine_vars>>

\* PUT /api/pantry with a body that validates as a Pantry.
replace_pantry(b, fail) ==
    /\ calls < MaxCalls
    /\ fail \in {"none", "save", "append"}
    /\ \A i \in 1..Len(b) : ItemValid(b[i])
    /\ LET items == [i \in 1..Len(b) |-> Item(b[i])]
       IN /\ file' = IF fail = "save" THEN file ELSE save(items)
          /\ events' = IF fail = "none"
                       THEN Append(events, InventoryEvent("replace", items))
                       ELSE events
          /\ IF fail = "none"
             THEN status' = 200 /\ body' = Response(items)
             ELSE status' = 500 /\ body' = <<>>
    /\ fn' = "replace_pantry"
    /\ calls' = calls + 1
    /\ UNCHANGED engine_vars

\* POST /api/pantry/merge with a body that validates as a list of Items:
\* load, apply_merge, save, append, respond.
merge_into_pantry(b, fail) ==
    /\ calls < MaxCalls
    /\ \A i \in 1..Len(b) : ItemValid(b[i])
    /\ LET l == load(file)
           hp == l.items \o [i \in 1..Len(b) |-> Item(b[i])]
           m == apply_merge(hp, <<Pantry(Range(0, Len(l.items)))>>, 1,
                            Range(Len(l.items), Len(b)), ADD)
           items == ItemsAt(m.heap, m.pantries[m.pantry].items)
       IN IF fail = "load" \/ l.raised
          THEN /\ status' = 500
               /\ body' = <<>>
               /\ UNCHANGED <<file, events>>
          ELSE /\ file' = IF fail = "save" THEN file ELSE save(items)
               /\ events' = IF fail = "none"
                            THEN Append(events,
                                        InventoryEvent("merge",
                                            [i \in 1..Len(b) |-> Item(b[i])]))
                            ELSE events
               /\ IF fail = "none"
                  THEN status' = 200 /\ body' = Response(items)
                  ELSE status' = 500 /\ body' = <<>>
    /\ fn' = "merge_into_pantry"
    /\ calls' = calls + 1
    /\ UNCHANGED engine_vars

ApiNext ==
    \/ \E fail \in Failures : get_pantry(fail)
    \/ \E b \in Bodies, fail \in Failures : replace_pantry(b, fail)
    \/ \E b \in Bodies, fail \in Failures : merge_into_pantry(b, fail)

ApiSpec == ApiInit /\ [][ApiNext]_vars

\* ------------------------------------------- calls that run concurrently
\* Two calls of merge_items run at the same time, each on lists of its own.
Threads == {1, 2}

\* The Items the lists of the concurrent calls are made of.
ConcPool == { Item(P_tomato_grams), Item(P_Tomato_blank) }

\* The lists of references a call can be given when the objects from lo + 1
\* on are its own: n items of current, then m of incoming.
Frame(lo, n, m) ==
    [current |-> Range(lo, n), incoming |-> Range(lo + n, m), idx |-> <<>>,
     phase |-> "index", i |-> 1, merged |-> <<>>]

ConcInit ==
    /\ \E n1 \in 0..MaxItems, m1 \in 0..MaxItems,
          n2 \in 0..MaxItems, m2 \in 0..MaxItems :
          /\ n1 + m1 < MaxItems
          /\ n2 + m2 < MaxItems
          /\ heap \in [1..(n1 + m1 + n2 + m2) -> ConcPool]
          /\ frames = <<Frame(0, n1, m1), Frame(n1 + m1, n2, m2)>>
    /\ current = <<>>
    /\ incoming = <<>>
    /\ later = <<>>
    /\ merged = <<>>
    /\ pc = "idle"
    /\ fn = "none"
    /\ strategy = "none"
    /\ calls = 0
    /\ pantries = <<>>
    /\ pantry = 0
    /\ returned = 0
    /\ arg = None
    /\ value = None
    /\ file = NoFile
    /\ events = <<>>
    /\ status = 0
    /\ body = <<>>

\* Mutant of IdxOf: the index is one dict that all calls share.
IdxOf_shared(t) == 1

\* idx: Dict[...] = {} is a local variable of _index: the call t uses the
\* index of its own frame.
IdxOf(t) == t

\* The variables the concurrent calls do not use.
seq_vars ==
    <<current, incoming, later, merged, pc, fn, strategy, calls, pantries,
      pantry, returned, arg, value>>

\* Call t runs one round of the loop of _index.
IndexOne(t) ==
    /\ frames[t].phase = "index"
    /\ frames[t].i <= Len(frames[t].current)
    /\ LET st == IndexStep([heap |-> heap, idx |-> frames[IdxOf(t)].idx],
                           frames[t].current[frames[t].i])
       IN /\ heap' = st.heap
          /\ frames' = [[frames EXCEPT ![IdxOf(t)].idx = st.idx]
                           EXCEPT ![t].i = frames[t].i + 1]
    /\ UNCHANGED <<seq_vars, api_vars>>

\* _index returns; call t turns to incoming.
StartLoop(t) ==
    /\ frames[t].phase = "index"
    /\ frames[t].i > Len(frames[t].current)
    /\ frames' = [frames EXCEPT ![t].phase = "merge", ![t].i = 1]
    /\ UNCHANGED <<heap, seq_vars, api_vars>>

\* Call t runs one round of the loop over incoming.
MergeOne(t) ==
    /\ frames[t].phase = "merge"
    /\ frames[t].i <= Len(frames[t].incoming)
    /\ LET st == MergeStep([heap |-> heap, idx |-> frames[IdxOf(t)].idx],
                           frames[t].incoming[frames[t].i])
       IN /\ heap' = st.heap
          /\ frames' = [[frames EXCEPT ![IdxOf(t)].idx = st.idx]
                           EXCEPT ![t].i = frames[t].i + 1]
    /\ UNCHANGED <<seq_vars, api_vars>>

\* Call t sorts the values of its index and returns them.
SortOne(t) ==
    /\ frames[t].phase = "merge"
    /\ frames[t].i > Len(frames[t].incoming)
    /\ LET refs == Values(frames[IdxOf(t)].idx)
           out == SortMerged(heap, refs)
       IN /\ heap' = out.heap
          /\ frames' = IF SortRaises(out.heap, refs)
                       THEN [frames EXCEPT ![t].phase = "raised"]
                       ELSE [frames EXCEPT ![t].phase = "done",
                                           ![t].merged = out.merged]
    /\ UNCHANGED <<seq_vars, api_vars>>

ConcNext ==
    \E t \in Threads :
        \/ IndexOne(t)
        \/ StartLoop(t)
        \/ MergeOne(t)
        \/ SortOne(t)

ConcSpec == ConcInit /\ [][ConcNext]_vars

\* -------------------------------- POST /api/pantry/merge, step by step
\* Requests that are served at the same time, each by a thread of its own.
Requests == {1, 2}

\* Mutant of Program: the event is appended before the pantry is saved.
Program_append_first == <<"load", "merge", "append", "save">>

\* The statements of the handler's try block, in order.
Program == <<"load", "merge", "save", "append">>

\* The handler's frame for a request with body b: its position in the
\* program, its locals current and merged, the statements it has completed
\* and the status it answered with (0: not answered yet).
Request(b) ==
    [body |-> b, pc |-> 1, current |-> <<>>, merged |-> <<>>,
     done |-> {}, status |-> 0]

PostInit ==
    /\ frames \in [Requests -> { Request(b) : b \in Bodies }]
    /\ heap = <<>>
    /\ current = <<>>
    /\ incoming = <<>>
    /\ later = <<>>
    /\ merged = <<>>
    /\ pc = "idle"
    /\ fn = "none"
    /\ strategy = "none"
    /\ calls = 0
    /\ pantries = <<>>
    /\ pantry = 0
    /\ returned = 0
    /\ arg = None
    /\ value = None
    /\ file = NoFile
    /\ events = <<>>
    /\ status = 0
    /\ body = <<>>

\* The variables the handler does not use.
handler_vars ==
    <<heap, current, incoming, later, merged, pc, fn, strategy, calls,
      pantries, pantry, returned, arg, value>>

\* The statement request t is at.
Stmt(t) ==
    IF frames[t].status # 0 THEN "answered"
    ELSE IF frames[t].pc <= Len(Program) THEN Program[frames[t].pc]
    ELSE "return"

\* The frame after its statement completed.
Advance(fr, stmt) == [fr EXCEPT !.pc = fr.pc + 1, !.done = fr.done \cup {stmt}]

\* except RepoError: raise HTTPException(status_code=500): request t is
\* answered with 500.
Raise500(t) ==
    /\ frames' = [frames EXCEPT ![t].status = 500]
    /\ status' = 500
    /\ body' = <<>>

\* The Items of a request body.
BodyItems(b) == [i \in 1..Len(b) |-> Item(b[i])]

\* current = pantry_repo.load(): the file is read under its lock, which is
\* released before load returns.
Load(t, ok) ==
    /\ Stmt(t) = "load"
    /\ LET l == load(file)
       IN IF ~ok \/ l.raised
          THEN Raise500(t)
          ELSE /\ frames' = [frames EXCEPT
                                ![t] = Advance([frames[t] EXCEPT
                                                  !.current = l.items], "load")]
               /\ UNCHANGED <<status, body>>
    /\ UNCHANGED <<file, events, handler_vars>>

\* merged = apply_merge(current, items)
Merge(t) ==
    /\ Stmt(t) = "merge"
    /\ LET cur == frames[t].current
           inc == BodyItems(frames[t].body)
           m == apply_merge(cur \o inc, <<Pantry(Range(0, Len(cur)))>>, 1,
                            Range(Len(cur), Len(inc)), ADD)
       IN frames' = [frames EXCEPT
                       ![t] = Advance([frames[t] EXCEPT
                                 !.merged = ItemsAt(m.heap,
                                               m.pantries[m.pantry].items)],
                                      "merge")]
    /\ UNCHANGED <<file, events, status, body, handler_vars>>

\* pantry_repo.save(merged): the document replaces the file in one step,
\* without a lock and whatever the file holds by now.
Save(t, ok) ==
    /\ Stmt(t) = "save"
    /\ IF ok
       THEN /\ file' = save(frames[t].merged)
            /\ frames' = [frames EXCEPT ![t] = Advance(frames[t], "save")]
            /\ UNCHANGED <<status, body>>
       ELSE /\ Raise500(t)
            /\ UNCHANGED file
    /\ UNCHANGED <<events, handler_vars>>

\* event_repo.append(InventoryEvent(...)): one line is added under the lock
\* of the event log.
AppendEvent(t, ok) ==
    /\ Stmt(t) = "append"
    /\ IF ok
       THEN /\ events' = Append(events,
                                InventoryEvent("merge", BodyItems(frames[t].body)))
            /\ frames' = [frames EXCEPT ![t] = Advance(frames[t], "append")]
            /\ UNCHANGED <<status, body>>
       ELSE /\ Raise500(t)
            /\ UNCHANGED events
    /\ UNCHANGED <<file, handler_vars>>

\* return merged: request t is answered with 200 and the merged pantry.
Return(t) ==
    /\ Stmt(t) = "return"
    /\ frames' = [frames EXCEPT ![t].status = 200]
    /\ status' = 200
    /\ body' = Response(frames[t].merged)
    /\ UNCHANGED <<file, events, handler_vars>>

PostNext ==
    \E t \in Requests :
        \/ \E ok \in BOOLEAN : Load(t, ok)
        \/ Merge(t)
        \/ \E ok \in BOOLEAN : Save(t, ok)
        \/ \E ok \in BOOLEAN : AppendEvent(t, ok)
        \/ Return(t)

PostSpec == PostInit /\ [][PostNext]_vars

\* ------------------------------------------------------------ properties
Elems(seq) == { seq[i] : i \in 1..Len(seq) }
\* The merge keys of a list of Items.
KeysOf(its) == { key(its[i]) : i \in 1..Len(its) }
DistinctKeys(its) ==
    \A i, j \in 1..Len(its) : i # j => key(its[i]) # key(its[j])
\* The entries of a list whose merge key is k.
EntriesWith(its, k) == { i \in 1..Len(its) : key(its[i]) = k }

\* A call of the engine returns in this step.
Returns == pc = "idle" /\ pc' = "returned"
\* A call of the engine is made in this step.
CallStep == pc = "idle" /\ pc' # "idle"

\* The quantity the 'add' rule gives for key k: q, then every nonzero
\* incoming item of key k added in order, each sum rounded.
RECURSIVE AddedUp(_, _, _, _)
AddedUp(q, k, incs, i) ==
    IF i > Len(incs) THEN q
    ELSE IF key(incs[i]) = k /\ incs[i].quantity # 0
         THEN AddedUp(Round6(q + incs[i].quantity), k, incs, i + 1)
         ELSE AddedUp(q, k, incs, i + 1)

\* C1: the list merge_items returns holds no two items with the same merge
\* key (normalized_name(), normalized_unit()), whatever current and incoming
\* held, and after any sequence of merges.
C1_UniqueKeys ==
    pc = "returned" => DistinctKeys(ItemsAt(heap, merged))

\* C2: when the keys of current are pairwise distinct, the result has, for
\* every key k of current, exactly one entry of key k, and its quantity is
\* current's quantity for k plus the incoming quantities of key k, each
\* addition rounded to 6 decimal places (a quantity-0 item adds nothing).
C2_SumPerKey ==
    (pc = "returned" /\ DistinctKeys(ItemsAt(heap, current))) =>
        \A c \in Elems(current) :
            LET k == key(heap[c])
                out == ItemsAt(heap, merged)
                hit == EntriesWith(out, k)
            IN /\ Cardinality(hit) = 1
               /\ \A i \in hit :
                     out[i].quantity =
                         AddedUp(heap[c].quantity, k, ItemsAt(heap, incoming), 1)

\* The quantity the engine's rules give an entry of key k from the caller's
\* items of key k alone: the last item of current with that key, or else
\* the first nonzero incoming item with it, then the later nonzero incoming
\* items with it added.  -1 when no item of the caller makes such an entry.
RECURSIVE FromOwnKey(_, _, _, _)
FromOwnKey(q, k, incs, i) ==
    IF i > Len(incs) THEN q
    ELSE IF key(incs[i]) = k /\ incs[i].quantity # 0
         THEN FromOwnKey(IF q = -1 THEN incs[i].quantity
                         ELSE Round6(q + incs[i].quantity), k, incs, i + 1)
         ELSE FromOwnKey(q, k, incs, i + 1)
LastOf(curs, k) ==
    IF EntriesWith(curs, k) = {} THEN -1
    ELSE curs[CHOOSE i \in EntriesWith(curs, k) :
                  \A j \in EntriesWith(curs, k) : j <= i].quantity
OwnKeyQuantity(k) ==
    FromOwnKey(LastOf(ItemsAt(heap, current), k), k, ItemsAt(heap, incoming), 1)

Given == Elems(current) \cup Elems(incoming)

\* C4 (as claimed): merge_items leaves current and incoming as they were,
\* and every field of every Item in them keeps its value.
C4_NothingWritten ==
    [][CallStep =>
          /\ current' = current
          /\ incoming' = incoming
          /\ \A r \in Given : heap'[r] = heap[r]]_vars

\* C4 (amended): merge_items leaves current and incoming as they were, and
\* the name, quantity, unit, category, confidence and notes of every Item
\* in them keep their value; norm_name and norm_unit may be written.
C4_FieldsKept ==
    [][CallStep =>
          /\ current' = current
          /\ incoming' = incoming
          /\ \A r \in Given : dict_exclude(heap'[r]) = dict_exclude(heap[r])]_vars

\* A call returned after adding an incoming quantity to an entry made from
\* an item of current.
C4_Witness ==
    /\ pc = "returned"
    /\ \E c \in Elems(current), r \in Elems(incoming) :
          /\ heap[r].quantity # 0
          /\ key(heap[r]) = key(heap[c])

\* The references of refs whose Item has a quantity other than 0.
NonZero(hp, refs) == SelectSeq(refs, LAMBDA r : hp[r].quantity # 0)

\* C5: taking the quantity-0 items out of incoming does not change the list
\* merge_items returns: such an item makes no row and changes no row.
C5_ZeroIsNoOp ==
    [][Returns =>
          LET m == merge_items(heap, current, NonZero(heap, incoming), ADD)
          IN ItemsAt(heap', merged') = ItemsAt(m.heap, m.merged)]_vars

\* A call returned whose incoming held a quantity-0 item of a key that
\* current does not hold.
C5_Witness ==
    /\ pc = "returned"
    /\ \E r \in Elems(incoming) :
          /\ heap[r].quantity = 0
          /\ key(heap[r]) \notin KeysOf(ItemsAt(heap, current))

\* The order the claim names, read off an Item's name and unit.
OrderKey(it) ==
    << strip(lower(it.name)),
       IF it.unit = None THEN <<>> ELSE CanonGet(strip(lower(it.unit))),
       it.name >>

\* C6: the returned list ascends in (normalized name, normalized unit with
\* None as "", display name); for one normalized name the entry without a
\* unit comes before the entries with one.
C6_Sorted ==
    pc = "returned" =>
        LET out == ItemsAt(heap, merged)
        IN \A i, j \in 1..Len(out) :
              i < j =>
                 /\ ~TupleLess(OrderKey(out[j]), OrderKey(out[i]))
                 /\ (OrderKey(out[i])[1] = OrderKey(out[j])[1] /\ out[j].unit = None)
                        => out[i].unit = None

\* A returned list in which a display name stands before a smaller one.
C6_Witness ==
    /\ pc = "returned"
    /\ \E i, j \in 1..Len(merged) :
          i < j /\ StrLess(heap[merged[j]].name, heap[merged[i]].name)

\* C7: a call of merge_items or apply_merge with a strategy other than 'add'
\* raises: nothing is returned, no Item is read or written, and current and
\* incoming stay as they were.
C7_FailFast ==
    [][(CallStep /\ strategy' # ADD) =>
          /\ pc' = "raised"
          /\ merged' = <<>>
          /\ heap' = heap
          /\ current' = current
          /\ incoming' = incoming]_vars

\* apply_merge raised on a pantry and a batch that both hold items.
C7_Witness ==
    /\ pc = "raised"
    /\ fn = "apply_merge"
    /\ strategy = "replace"
    /\ current # <<>>
    /\ incoming # <<>>

\* The (merge key, quantity) pairs of a list of Items.
Pairs(its) == { <<key(its[i]), its[i].quantity>> : i \in 1..Len(its) }

\* C8: merging a pantry with an empty incoming list returns the pantry's
\* set of (merge key, quantity) pairs.  Stated for a pantry whose keys are
\* pairwise distinct, which is what the data model calls a Pantry.
C8_EmptyIncoming ==
    (pc = "returned" /\ incoming = <<>> /\ DistinctKeys(ItemsAt(heap, current))) =>
        Pairs(ItemsAt(heap, merged)) = Pairs(ItemsAt(heap, current))

\* The quantities of the entries of key k.
QuantitiesWith(its, k) == { its[i].quantity : i \in EntriesWith(its, k) }

\* The merge key read off an Item's name and unit.
FieldKey(it) ==
    << strip(lower(it.name)),
       IF it.unit = None THEN None ELSE CanonGet(strip(lower(it.unit))) >>

\* C9: for two incoming items A and B of one merge key, merging [A, B] and
\* merging [B, A] into the same current give the same quantity for the key.
\* Stated for items whose key() is the key of their name and unit.
C9_OrderFree ==
    [][(Returns /\ Len(incoming) = 2
               /\ \A r \in Given : key(heap[r]) = FieldKey(heap[r])
               /\ key(heap[incoming[1]]) = key(heap[incoming[2]])) =>
          LET m == merge_items(heap, current, <<incoming[2], incoming[1]>>, ADD)
              k == key(heap[incoming[1]])
          IN QuantitiesWith(ItemsAt(heap', merged'), k)
                 = QuantitiesWith(ItemsAt(m.heap, m.merged), k)]_vars

\* Names that differ only in case or outer whitespace, units that are
\* aliases of one canonical unit.
SameLine(x, y) ==
    /\ strip(lower(x.name)) = strip(lower(y.name))
    /\ x.unit # None
    /\ y.unit # None
    /\ CanonGet(strip(lower(x.unit))) = CanonGet(strip(lower(y.unit)))

\* C10: two such items have equal merge keys, and merging one as current
\* with the other as incoming gives one entry, with the display name and
\* unit of the current one and the canonical unit as normalized unit.
C10_AliasFolding ==
    (pc = "returned" /\ Len(current) = 1 /\ Len(incoming) = 1
        /\ SameLine(heap[current[1]], heap[incoming[1]])) =>
        LET x == heap[current[1]]
            y == heap[incoming[1]]
            out == ItemsAt(heap, merged)
        IN /\ key(x) = key(y)
           /\ Len(out) = 1
           /\ out[1].name = x.name
           /\ out[1].unit = x.unit
           /\ normalized_unit(out[1]) = CanonGet(strip(lower(x.unit)))

\* What an entry shows besides its quantity.
Shown(it) ==
    [name |-> it.name, unit |-> it.unit, category |-> it.category,
     confidence |-> it.confidence, notes |-> it.notes]
\* The keys the index gets: those of current and of the nonzero incoming
\* items.
IndexKeys ==
    KeysOf(ItemsAt(heap, current))
        \cup KeysOf(ItemsAt(heap, NonZero(heap, incoming)))
\* The item an entry of key k is a copy of: the last item of current with
\* that key, or else the first nonzero incoming item with it.
Maker(k) ==
    LET curs == ItemsAt(heap, current)
        incs == ItemsAt(heap, NonZero(heap, incoming))
    IN IF EntriesWith(curs, k) # {}
       THEN curs[CHOOSE i \in EntriesWith(curs, k) :
                     \A j \in EntriesWith(curs, k) : j <= i]
       ELSE incs[CHOOSE i \in EntriesWith(incs, k) :
                     \A j \in EntriesWith(incs, k) : i <= j]

\* C11: an entry keeps the display name, unit, category, confidence and
\* notes of the item it was made from (the copy taken from current, or the
\* first nonzero incoming item of its key); the nonzero incoming items that
\* are added to it afterwards change its quantity only, their spelling and
\* metadata do not show in the result.
C11_EntryKeepsFields ==
    pc = "returned" =>
        /\ Len(merged) = Cardinality(IndexKeys)
        /\ { Shown(heap[r]) : r \in Elems(merged) }
               = { Shown(Maker(k)) : k \in IndexKeys }

\* A call returned after adding, to an entry, a nonzero incoming item that
\* spells the name and the unit differently and carries other metadata.
C11_Witness ==
    /\ pc = "returned"
    /\ \E k \in IndexKeys :
          \E r \in Elems(incoming) :
             /\ heap[r].quantity # 0
             /\ key(heap[r]) = k
             /\ Shown(heap[r]) # Shown(Maker(k))
             /\ Shown(heap[r]) \notin { Shown(heap[e]) : e \in Elems(merged) }

\* The i-th incoming item makes an entry: it is nonzero, and neither current
\* nor an earlier nonzero incoming item has its key.
MakesEntry(i) ==
    LET x == heap[incoming[i]]
    IN /\ x.quantity # 0
       /\ key(x) \notin KeysOf(ItemsAt(heap, current))
       /\ \A j \in 1..(i - 1) :
             heap[incoming[j]].quantity # 0 => key(heap[incoming[j]]) # key(x)

\* C12 (as claimed): an incoming item that makes an entry appears in the
\* result with its display name, its quantity as given, its unit and its
\* metadata.
C12_AsGiven ==
    pc = "returned" =>
        \A i \in 1..Len(incoming) :
            MakesEntry(i) =>
                \E e \in Elems(merged) :
                    dict_exclude(heap[e]) = dict_exclude(heap[incoming[i]])

\* C12 (amended): an incoming item that makes an entry appears in the
\* result with its display name, unit and metadata, and with its quantity
\* as given plus the later nonzero incoming quantities of its key, each sum
\* rounded; a single nonzero item merged into an empty pantry is returned
\* as it is, alone.
C12_GivenThenAdded ==
    pc = "returned" =>
        /\ \A i \in 1..Len(incoming) :
              MakesEntry(i) =>
                 \E e \in Elems(merged) :
                    /\ Shown(heap[e]) = Shown(heap[incoming[i]])
                    /\ heap[e].quantity =
                          AddedUp(heap[incoming[i]].quantity,
                                  key(heap[incoming[i]]),
                                  ItemsAt(heap, incoming), i + 1)
        /\ (current = <<>> /\ Len(incoming) = 1 /\ MakesEntry(1)) =>
              /\ Len(merged) = 1
              /\ dict_exclude(heap[merged[1]]) = dict_exclude(heap[incoming[1]])

\* A call returned in which an incoming item with metadata made an entry
\* and a later incoming item of the same key was added to it.
C12_Witness ==
    /\ pc = "returned"
    /\ \E i, j \in 1..Len(incoming) :
          /\ i < j
          /\ MakesEntry(i)
          /\ heap[incoming[i]].category # None
          /\ heap[incoming[j]].quantity # 0
          /\ key(heap[incoming[j]]) = key(heap[incoming[i]])

\* C13: apply_merge returns a Pantry that is not the Pantry it was given,
\* whose items are what merge_items returns for the given pantry's items,
\* the incoming items and the strategy; the given Pantry keeps its list,
\* and no Item of the returned Pantry is an Item of the given pantry or of
\* incoming.
C13_FreshPantry ==
    [][(CallStep /\ fn' = "apply_merge" /\ pc' = "returned") =>
          LET m == merge_items(heap, current, incoming, strategy')
              items == pantries'[returned'].items
          IN /\ returned' # pantry'
             /\ pantries'[pantry'].items = current
             /\ ~m.raised
             /\ ItemsAt(heap', items) = ItemsAt(m.heap, m.merged)
             /\ Elems(items) \cap Given = {}]_vars

\* apply_merge returned a Pantry with entries for a pantry and a batch that
\* both hold items.
C13_Witness ==
    /\ pc = "returned"
    /\ fn = "apply_merge"
    /\ current # <<>>
    /\ incoming # <<>>
    /\ returned # 0
    /\ pantries[returned].items # <<>>

\* A string that is empty or holds whitespace only.
Blank(v) == \A i \in 1..Len(v) : IsSpace(v[i])

\* C14: Item(...) with an empty or whitespace-only name, or with a negative
\* quantity, fails and leaves no Item; an Item that is constructed has a
\* name that is not blank, stored without surrounding whitespace, and a
\* quantity that is not negative.
C14_Validated ==
    /\ (pc = "invalid" \/ pc = "constructed") =>
          ((Blank(arg.name) \/ arg.quantity < 0) => (pc = "invalid" /\ heap = <<>>))
    /\ pc = "constructed" =>
          /\ Len(heap) = 1
          /\ ~Blank(heap[1].name)
          /\ ~IsSpace(heap[1].name[1])
          /\ ~IsSpace(heap[1].name[Len(heap[1].name)])
          /\ heap[1].name = SubSeq(arg.name,
                                   CHOOSE i \in 1..Len(arg.name) :
                                      /\ ~IsSpace(arg.name[i])
                                      /\ \A j \in 1..(i - 1) : IsSpace(arg.name[j]),
                                   CHOOSE i \in 1..Len(arg.name) :
                                      /\ ~IsSpace(arg.name[i])
                                      /\ \A j \in (i + 1)..Len(arg.name) :
                                            IsSpace(arg.name[j]))
          /\ heap[1].quantity >= 0

\* An Item was constructed from a name with surrounding whitespace.
C14_Witness ==
    /\ pc = "constructed"
    /\ IsSpace(arg.name[1])
    /\ heap[1].name # arg.name

\* The canonical unit the table of the specification gives for a lowercased,
\* trimmed unit; a unit it does not list stands for itself.
TableUnit(u) ==
    IF u \in { s_grams, s_gram, s_g } THEN s_g
    ELSE IF u \in { s_kilogram, s_kilograms, s_kg } THEN s_kg
    ELSE IF u \in { s_ml, s_millilitre, s_milliliter, s_milliliters } THEN s_ml
    ELSE IF u \in { s_l, s_litre, s_liter, s_liters } THEN s_l
    ELSE IF u \in { s_cup, s_cups } THEN s_cup
    ELSE IF u \in { s_pcs, s_piece, s_pieces, s_unit, s_units } THEN s_piece
    ELSE u

\* A method is called on an Item on which no method was called before.
FirstCall == pc = "constructed" /\ pc' = "called"

\* C15: on a freshly constructed Item, normalized_name() returns the name
\* lowercased and trimmed; normalized_unit() returns None for the unit None
\* and otherwise the table's image of the lowercased, trimmed unit.
C15_Normalized ==
    [][(FirstCall /\ fn' = "normalized_name"
            => value' = strip(lower(heap[1].name)))
       /\ (FirstCall /\ fn' = "normalized_unit"
            => value' = IF heap[1].unit = None THEN None
                        ELSE TableUnit(strip(lower(heap[1].unit))))]_vars

\* C16: an Item constructed with the unit '' or a whitespace-only unit has
\* the unit None from construction on and is the Item the same arguments
\* with unit None give (so it merges and sorts as that one), its
\* normalized_unit() is None and its key has the unit None; and
\* normalized_unit() never returns the empty string.
C16_BlankUnit ==
    /\ (pc \in {"constructed", "called"} /\ arg.unit # None /\ Blank(arg.unit)) =>
          /\ heap[1].unit = None
          /\ pc = "constructed" => heap[1] = Item([arg EXCEPT !.unit = None])
          /\ fn = "normalized_unit" => value = None
          /\ fn = "key" => value[2] = None
    /\ (pc = "called" /\ fn = "normalized_unit") => value # <<>>

\* C17: a call with the strategy 'add' returns a list, whatever current and
\* incoming hold (nothing, items of quantity 0 only, a key several times);
\* when every incoming item has the quantity 0, the list is the one
\* returned for an empty incoming.
C17_Total ==
    [][(CallStep /\ strategy' = ADD) =>
          /\ pc' = "returned"
          /\ Len(merged') <= Len(current) + Len(incoming)
          /\ (current = <<>> /\ incoming = <<>>) => merged' = <<>>
          /\ (\A r \in Elems(incoming) : heap[r].quantity = 0) =>
                LET m == merge_items(heap, current, <<>>, ADD)
                IN ItemsAt(heap', merged') = ItemsAt(m.heap, m.merged)]_vars

\* A call returned entries with and without a unit for one normalized
\* name, after an incoming list that repeated a key.
C17_Witness ==
    /\ pc = "returned"
    /\ \E i, j \in 1..Len(incoming) :
          i # j /\ key(heap[incoming[i]]) = key(heap[incoming[j]])
    /\ \E e, f \in Elems(merged) :
          /\ normalized_name(heap[e]) = normalized_name(heap[f])
          /\ heap[e].unit = None
          /\ heap[f].unit # None

\* C18: a GET /api/pantry that directly follows a successful POST
\* /api/pantry/merge answers with the items of the merge response, in the
\* same order and with the same names, quantities, units and metadata; a
\* further GET answers the same.
C18_ReadBack ==
    [][(fn' = "get_pantry" /\ status' = 200 /\ status = 200
           /\ fn \in {"merge_into_pantry", "get_pantry"}) =>
          body' = body]_vars

\* A GET answered with the entries a merge wrote, one of them without a
\* unit and one with a quantity below 0.000001.
C18_Witness ==
    /\ fn = "get_pantry"
    /\ status = 200
    /\ events # <<>>
    /\ events[Len(events)].mode = "merge"
    /\ \E i \in 1..Len(body) : body[i].unit = JsonNull
    /\ \E i \in 1..Len(body) : LoadNum(body[i].quantity) % Micro # 0

\* C19: whatever the interleaving of two concurrent calls on lists of
\* their own, each call returns, and what it returns is the list the call
\* returns when it runs alone on its lists.
C19_NoInterference ==
    \A t \in Threads :
        /\ frames[t].phase # "raised"
        /\ frames[t].phase = "done" =>
              LET m == merge_items(heap, frames[t].current,
                                   frames[t].incoming, ADD)
              IN /\ ~m.raised
                 /\ ItemsAt(heap, frames[t].merged) = ItemsAt(m.heap, m.merged)

\* Both calls returned entries, and the copies of one call were made
\* between the copies of the other.
C19_Witness ==
    /\ \A t \in Threads : frames[t].phase = "done"
    /\ \E a, c \in Elems(frames[1].merged), b \in Elems(frames[2].merged) :
          a < b /\ b < c

\* The sum of the quantities of the Items of key k among the objects refs.
RECURSIVE SumWith(_, _, _)
SumWith(refs, k, i) ==
    IF i > Len(refs) THEN 0
    ELSE (IF key(heap[refs[i]]) = k THEN heap[refs[i]].quantity ELSE 0)
            + SumWith(refs, k, i + 1)

\* C20: the quantity of every entry of the result is the sum of the
\* quantities of all items of its key in current and incoming together,
\* also when current holds several items of one key.  Stated for items
\* whose key() is the key of their name and unit and whose quantities are
\* whole multiples of 0.000001, for which the rounding changes no sum.
C20_SumOfAll ==
    (pc = "returned"
        /\ \A r \in Given : /\ key(heap[r]) = FieldKey(heap[r])
                             /\ heap[r].quantity % Micro = 0) =>
        \A e \in Elems(merged) :
            heap[e].quantity =
                SumWith(current \o incoming, key(heap[e]), 1)


\* An Item the caller holds.
Alive == pc \in {"constructed", "called", "assigned"}

\* The canonical form of a unit: None for None, else the table's image of
\* the lowercased, trimmed unit.
CanonicalUnit(u) == IF u = None THEN None ELSE TableUnit(strip(lower(u)))

\* C21: at every moment of an Item's life, however it was constructed and
\* whatever was called on it or assigned to it since, normalized_name() is
\* the lowercased, trimmed current name and normalized_unit() the canonical
\* form of the current unit, so its key is the key of the copy merge_items
\* stores for it.
C21_KeyFollowsFields ==
    Alive =>
       /\ normalized_name(heap[1]) = strip(lower(heap[1].name))
       /\ normalized_unit(heap[1]) = CanonicalUnit(heap[1].unit)
       /\ key(heap[1]) = key(Item(dict_exclude(heap[1])))

\* The Items merge_items returns for current and incoming on heap hp.
MergedItems(hp, cur, inc) ==
    CHOOSE its \in { ItemsAt(m.heap, m.merged) :
                        m \in { merge_items(hp, cur, inc, ADD) } } : TRUE

\* The Items two calls return, the second given the list the first returned.
MergedInTurn(hp, cur, x, y) ==
    CHOOSE its \in { ItemsAt(m2.heap, m2.merged) :
                        m2 \in { merge_items(m1.heap, m1.merged, y, ADD) :
                                    m1 \in { merge_items(hp, cur, x, ADD) } } } : TRUE

\* C22: merging incoming and the later batch in one call returns the list
\* that merging incoming and then the later batch returns: same entries,
\* with the same keys, quantities and fields, in the same order.
C22_BatchIsSequence ==
    pc = "idle" =>
        MergedItems(heap, current, incoming \o later)
            = MergedInTurn(heap, current, incoming, later)

\* The pair the sort compares before the display name.
SortPair(it) == <<normalized_name(it), OrEmpty(normalized_unit(it))>>

\* C23: no two entries of a returned list have the same pair (normalized
\* name, normalized unit with None as ""), so the order of the list is fixed
\* by the pairs alone.
C23_NoSortTies ==
    pc = "returned" =>
        \A i, j \in 1..Len(merged) :
            i # j => SortPair(heap[merged[i]]) # SortPair(heap[merged[j]])

\* The whole multiples of 0.000001 nearest to a quantity: one, or two for an
\* exact half.
Nearest(q) ==
    { m \in { q - (q % Micro), q - (q % Micro) + Micro } :
         2 * (IF m < q THEN q - m ELSE m - q) <= Micro }

\* The quantities the claim allows for an entry: from the quantities qs
\* (-1: no entry yet), the nonzero incoming items of key k from the i-th on
\* are taken in order; the first makes the entry with its quantity as
\* given, each later one is added and the sum goes to a nearest multiple.
RECURSIVE Stored(_, _, _, _)
Stored(qs, k, incs, i) ==
    IF i > Len(incs) THEN qs
    ELSE IF key(incs[i]) = k /\ incs[i].quantity # 0
         THEN Stored(UNION { IF q = -1 THEN { incs[i].quantity }
                             ELSE Nearest(q + incs[i].quantity) : q \in qs },
                     k, incs, i + 1)
         ELSE Stored(qs, k, incs, i + 1)

\* The quantities the claim allows for the entry of index key k.
StoredFor(k) ==
    Stored({ LastOf(ItemsAt(heap, current), k) }, k, ItemsAt(heap, incoming), 1)

\* C24: every addition of an incoming quantity to an entry stores the sum
\* rounded to 6 decimal places, a whole multiple of 0.000001 nearest to the
\* sum; an entry that an incoming item makes starts from that item's
\* quantity exactly as given, and an entry copied from current from
\* current's quantity as given.
C24_RoundedOnAdd ==
    pc = "returned" =>
        /\ \A k \in IndexKeys :
              \E e \in Elems(merged) :
                 /\ Shown(heap[e]) = Shown(Maker(k))
                 /\ heap[e].quantity \in StoredFor(k)
        /\ \A e \in Elems(merged) :
              \E k \in IndexKeys :
                 /\ Shown(heap[e]) = Shown(Maker(k))
                 /\ heap[e].quantity \in StoredFor(k)
        /\ \A i \in 1..Len(incoming) :
              (MakesEntry(i) /\ \A j \in (i + 1)..Len(incoming) :
                                   \/ heap[incoming[j]].quantity = 0
                                   \/ key(heap[incoming[j]]) # key(heap[incoming[i]]))
                 => \E e \in Elems(merged) :
                       dict_exclude(heap[e]) = dict_exclude(heap[incoming[i]])

\* A call returned in which an incoming item of a quantity that is no whole
\* multiple of 0.000001 made an entry, a later incoming item was added to
\* it, and the stored sum is not the exact sum.
C24_Witness ==
    /\ pc = "returned"
    /\ \E i, j \in 1..Len(incoming) :
          /\ i < j
          /\ MakesEntry(i)
          /\ heap[incoming[i]].quantity % Micro # 0
          /\ heap[incoming[j]].quantity # 0
          /\ key(heap[incoming[j]]) = key(heap[incoming[i]])
          /\ \A e \in Elems(merged) :
                heap[e].quantity # heap[incoming[i]].quantity
                                      + heap[incoming[j]].quantity

\* C25: the entries of a call are objects of their own, none of them an
\* item of current or incoming; a call leaves the name, quantity, unit,
\* category, confidence and notes of every item of current and incoming as
\* they were, also when it adds to the entry made from the item; and what
\* it writes on such an item is norm_name and norm_unit only, with the
\* lowercased, trimmed name and the canonical unit of that item.
C25_CopiesApart ==
    [][CallStep =>
          /\ Elems(merged') \cap Given = {}
          /\ \A r \in Given :
                /\ dict_exclude(heap'[r]) = dict_exclude(heap[r])
                /\ heap'[r].norm_name
                      \in { heap[r].norm_name, strip(lower(heap[r].name)) }
                /\ heap'[r].norm_unit
                      \in { heap[r].norm_unit, CanonicalUnit(heap[r].unit) }]_vars

\* A call returned an entry that shows an item of current with another
\* quantity than the item has: the entry was added to, the item was not,
\* and the item has its caches written.
C25_Witness ==
    /\ pc = "returned"
    /\ \E c \in Elems(current), e \in Elems(merged) :
          /\ Shown(heap[e]) = Shown(heap[c])
          /\ key(heap[e]) = key(heap[c])
          /\ heap[e].quantity > heap[c].quantity
          /\ heap[c].norm_name = strip(lower(heap[c].name))
          /\ heap[c].norm_unit # None
          /\ \A x \in Elems(current) : key(heap[x]) = key(heap[c]) => x = c

\* C26: the merge keys of a returned list are the keys of current and the
\* keys of the nonzero incoming items, no more and no less; an item of
\* current of quantity 0 has an entry of its key in the result, of quantity
\* 0 when no nonzero incoming item has that key.
C26_KeySet ==
    pc = "returned" =>
        /\ KeysOf(ItemsAt(heap, merged)) = IndexKeys
        /\ \A c \in Elems(current) :
              heap[c].quantity = 0 =>
                 \E e \in Elems(merged) :
                    /\ key(heap[e]) = key(heap[c])
                    /\ (\A r \in Elems(incoming) :
                           heap[r].quantity = 0 \/ key(heap[r]) # key(heap[c]))
                          => heap[e].quantity = 0

\* C27: a call on a current list of pairwise distinct keys returns
\* quantities that are >= 0, and for every item of current an entry of its
\* key whose quantity is not below the item's.
C27_NeverLess ==
    (pc = "returned" /\ DistinctKeys(ItemsAt(heap, current))) =>
        /\ \A e \in Elems(merged) : heap[e].quantity >= 0
        /\ \A c \in Elems(current) :
              \E e \in Elems(merged) :
                 /\ key(heap[e]) = key(heap[c])
                 /\ heap[e].quantity >= heap[c].quantity

\* C29: a POST /api/pantry/merge that is answered with 500 leaves the
\* pantry file as it was.
C29_FailureKeepsFile ==
    [][(fn' = "merge_into_pantry" /\ calls' = calls + 1 /\ status' = 500)
          => file' = file]_vars

\* The pantry file after requests with the bodies bs were served one after
\* the other, in that order, starting from the file f.
RECURSIVE Serial(_, _)
Serial(f, bs) ==
    IF bs = <<>> THEN f
    ELSE LET cur == load(f).items
             inc == BodyItems(Head(bs))
             m == merge_items(cur \o inc, Range(0, Len(cur)),
                              Range(Len(cur), Len(inc)), ADD)
         IN Serial(save(ItemsAt(m.heap, m.merged)), Tail(bs))

\* C28: when both requests were answered with 200, the pantry file is what
\* serving them one after the other, in one of the two orders, leaves.
C28_Serializable ==
    (\A t \in Requests : frames[t].status = 200) =>
        file \in { Serial(NoFile, <<frames[1].body, frames[2].body>>),
                   Serial(NoFile, <<frames[2].body, frames[1].body>>) }

\* C30: a request completes its statements in the order load, merge, save,
\* append: its event is in the log only when its merged pantry was saved
\* before, the log holds one 'update' event of mode 'merge' per completed
\* append, and a request that failed in load or save has appended nothing.
C30_SaveBeforeAppend ==
    /\ \A t \in Requests :
          /\ "append" \in frames[t].done => "save" \in frames[t].done
          /\ "save" \in frames[t].done => "merge" \in frames[t].done
          /\ "merge" \in frames[t].done => "load" \in frames[t].done
          /\ "append" \in frames[t].done =>
                InventoryEvent("merge", BodyItems(frames[t].body))
                    \in Elems(events)
          /\ (frames[t].status = 500 /\ {"load", "save"} \ frames[t].done # {})
                => "append" \notin frames[t].done
          /\ frames[t].status = 200 => frames[t].done = Elems(Program)
    /\ Len(events) = Cardinality({ t \in Requests : "append" \in frames[t].done })
    /\ \A i \in 1..Len(events) :
          events[i].type = "update" /\ events[i].mode = "merge"

\* One request was answered with 200 after its save and its append, the
\* other with 500 because its save failed, and the log holds one event.
C30_Witness ==
    \E t, u \in Requests :
        /\ frames[t].status = 200
        /\ frames[t].body # <<>>
        /\ frames[u].status = 500
        /\ frames[u].done = {"load", "merge"}
        /\ Len(events) = 1
        /\ file = save(frames[t].merged)
====
